---- MODULE Spec2Model ----
(***************************************************************************)
(* Model of the proactive thinking-block validator hook of principia       *)
(* (src/unnamed/part_003).  Its constants.ts is not among the sources; the *)
(* part-type lists and the placeholder are modelled from the specification.*)
(*                                                                         *)
(* A JavaScript string is modelled as the tuple of its characters, so that *)
(* toLowerCase, includes, endsWith and trim are computed and not assumed.  *)
(* An absent thinking or text field and the empty string are both falsy in *)
(* every test the code makes on them; both are modelled as the empty       *)
(* tuple.  An absent parts field takes the branches of the empty list and  *)
(* is modelled as the empty list.  An absent sessionID or modelID is       *)
(* UndefinedValue and an absent info object is UndefinedInfo, which has no *)
(* role field to read.                                                     *)
(* Array indices are 1-based here and 0-based in the source.               *)
(***************************************************************************)
EXTENDS Integers, Sequences, FiniteSets

VARIABLES
    messages,   \* output.messages: the conversation the hook mutates in place
    before,     \* the conversation as it was when the latest pass started
    passes,     \* number of hook invocations made on this conversation
    threw,      \* whether the latest invocation threw (its promise rejected)
    call        \* the latest direct call of an exported function, with its result

vars == <<messages, before, passes, threw, call>>

---------------------------------------------------------------------------
(* Bounds of the model *)

MaxMsgs == 3
MaxParts == 3
MaxPasses == 2
MaxSegments == 3
MaxSnapshotMsgs == 3
MaxKeys == 1
MaxLoads == 2

---------------------------------------------------------------------------
(* Strings *)

EmptyString == <<>>

\* undefined in the place of a string
UndefinedValue == <<"undefined">>

\* x || ""
orEmptyString(x) == IF x = UndefinedValue \/ x = EmptyString THEN EmptyString ELSE x

\* undefined in the place of message.info: reading a property of it throws
UndefinedInfo == [undefined |-> TRUE]

isUndefinedInfo(info) == DOMAIN info = {"undefined"}

\* undefined in the place of message.parts: !parts is true
UndefinedParts == <<[undefined |-> TRUE]>>

\* the upper-case letters that occur in the model ids of this model
toLowerCaseChar(c) ==
    CASE c = "C" -> "c"
      [] c = "G" -> "g"
      [] c = "H" -> "h"
      [] c = "I" -> "i"
      [] c = "K" -> "k"
      [] c = "N" -> "n"
      [] c = "T" -> "t"
      [] c = "A" -> "a"
      [] c = "D" -> "d"
      [] c = "E" -> "e"
      [] c = "L" -> "l"
      [] c = "O" -> "o"
      [] c = "P" -> "p"
      [] c = "S" -> "s"
      [] c = "U" -> "u"
      [] OTHER -> c

toLowerCase(s) == [k \in 1..Len(s) |-> toLowerCaseChar(s[k])]

\* pat occurs in s at offset k (0-based)
matchesAt(s, pat, k) == \A j \in 1..Len(pat) : s[k + j] = pat[j]

includes(s, pat) == \E k \in 0..(Len(s) - Len(pat)) : matchesAt(s, pat, k)

endsWith(s, pat) ==
    /\ Len(s) >= Len(pat)
    /\ matchesAt(s, pat, Len(s) - Len(pat))

WhiteSpace == {" ", "\t", "\n"}

RECURSIVE trimStart(_)
trimStart(s) ==
    IF s # <<>> /\ Head(s) \in WhiteSpace THEN trimStart(Tail(s)) ELSE s

RECURSIVE trimEnd(_)
trimEnd(s) ==
    IF s # <<>> /\ s[Len(s)] \in WhiteSpace
    THEN trimEnd(SubSeq(s, 1, Len(s) - 1))
    ELSE s

trim(s) == trimEnd(trimStart(s))

---------------------------------------------------------------------------
(* constants.ts of the hook *)

THINKING_PART_TYPES == {"thinking", "redacted_thinking", "reasoning"}

PartTypes == THINKING_PART_TYPES \cup {"tool", "tool_use", "text", "step-start"}

CONTENT_PART_TYPES_ToolAndText == {"tool", "tool_use", "text"}

CONTENT_PART_TYPES == PartTypes \ THINKING_PART_TYPES

DEFAULT_THINKING_CONTENT == <<"[", "c", "o", "n", "t", "]">>

SYNTHETIC_THINKING_ID_PREFIX == <<"prt", "synthetic", "thinking">>

---------------------------------------------------------------------------
(* isExtendedThinkingModel *)

s_thinking == <<"t", "h", "i", "n", "k", "i", "n", "g">>
s_high == <<"-", "h", "i", "g", "h">>
s_claude_sonnet_4 ==
    <<"c", "l", "a", "u", "d", "e", "-", "s", "o", "n", "n", "e", "t", "-", "4">>
s_claude_opus_4 ==
    <<"c", "l", "a", "u", "d", "e", "-", "o", "p", "u", "s", "-", "4">>
s_claude_3 == <<"c", "l", "a", "u", "d", "e", "-", "3">>

isExtendedThinkingModelIncludesHigh(modelID) ==
    IF modelID = UndefinedValue \/ modelID = EmptyString THEN FALSE
    ELSE LET lower == toLowerCase(modelID) IN
         IF includes(lower, s_thinking) \/ includes(lower, s_high)
         THEN TRUE
         ELSE \/ includes(lower, s_claude_sonnet_4)
              \/ includes(lower, s_claude_opus_4)
              \/ includes(lower, s_claude_3)

isExtendedThinkingModel(modelID) ==
    IF modelID = UndefinedValue \/ modelID = EmptyString THEN FALSE
    ELSE LET lower == toLowerCase(modelID) IN
         IF includes(lower, s_thinking) \/ endsWith(lower, s_high)
         THEN TRUE
         ELSE \/ includes(lower, s_claude_sonnet_4)
              \/ includes(lower, s_claude_opus_4)
              \/ includes(lower, s_claude_3)

---------------------------------------------------------------------------
(* Per-message checks *)

hasContentPartsEmptyIsContent(parts) ==
    IF parts = UndefinedParts \/ Len(parts) = 0 THEN TRUE
    ELSE \E k \in 1..Len(parts) : parts[k].type \in CONTENT_PART_TYPES

hasContentPartsEvery(parts) ==
    IF Len(parts) = 0 THEN FALSE
    ELSE \A k \in 1..Len(parts) : parts[k].type \in CONTENT_PART_TYPES

hasContentParts(parts) ==
    IF parts = UndefinedParts \/ Len(parts) = 0 THEN FALSE
    ELSE \E k \in 1..Len(parts) : parts[k].type \in CONTENT_PART_TYPES

startsWithThinkingBlockLast(parts) ==
    IF Len(parts) = 0 THEN FALSE
    ELSE parts[Len(parts)].type \in THINKING_PART_TYPES

startsWithThinkingBlockNonEmpty(parts) ==
    IF Len(parts) = 0 THEN FALSE
    ELSE /\ parts[1].type \in THINKING_PART_TYPES
         /\ parts[1].thinking # EmptyString

startsWithThinkingBlock(parts) ==
    IF parts = UndefinedParts \/ Len(parts) = 0 THEN FALSE
    ELSE parts[1].type \in THINKING_PART_TYPES

---------------------------------------------------------------------------
(* findPreviousThinkingContent *)

thinkingOfThinkingOnly(part) == part.thinking

\* const thinking = part.thinking || part.text
thinkingOf(part) ==
    IF part.thinking # EmptyString THEN part.thinking ELSE part.text

\* the inner for-of loop over msg.parts, from part k on; <<>> when it falls
\* through without returning
RECURSIVE scanParts(_, _)
scanParts(parts, k) ==
    IF k > Len(parts) THEN EmptyString
    ELSE IF /\ parts[k].type \in THINKING_PART_TYPES
            /\ thinkingOf(parts[k]) # EmptyString
            /\ Len(trim(thinkingOf(parts[k]))) > 0
         THEN thinkingOf(parts[k])
         ELSE scanParts(parts, k + 1)

RECURSIVE searchBackFromAnyRole(_, _)
searchBackFromAnyRole(msgs, i) ==
    IF i < 1 THEN EmptyString
    ELSE IF scanParts(msgs[i].parts, 1) # EmptyString
         THEN scanParts(msgs[i].parts, 1)
         ELSE searchBackFromAnyRole(msgs, i - 1)

RECURSIVE searchBackFromNearestOnly(_, _)
searchBackFromNearestOnly(msgs, i) ==
    IF i < 1 THEN EmptyString
    ELSE IF msgs[i].info.role # "assistant"
         THEN searchBackFromNearestOnly(msgs, i - 1)
         ELSE scanParts(msgs[i].parts, 1)

\* the outer loop, at index i (1-based), going down to the first message
RECURSIVE searchBackFrom(_, _)
searchBackFrom(msgs, i) ==
    IF i < 1 THEN EmptyString
    ELSE IF msgs[i].info.role # "assistant" THEN searchBackFrom(msgs, i - 1)
         ELSE IF msgs[i].parts = UndefinedParts THEN searchBackFrom(msgs, i - 1)
         ELSE IF scanParts(msgs[i].parts, 1) # EmptyString
              THEN scanParts(msgs[i].parts, 1)
              ELSE searchBackFrom(msgs, i - 1)

findPreviousThinkingContentFromCurrent(msgs, currentIndex) ==
    searchBackFrom(msgs, currentIndex)

findPreviousThinkingContent(msgs, currentIndex) ==
    searchBackFrom(msgs, currentIndex - 1)

---------------------------------------------------------------------------
(* prependThinkingBlock *)

thinkingPartKeepsUndefined(message, thinkingContent) ==
    [type      |-> "thinking",
     id        |-> SYNTHETIC_THINKING_ID_PREFIX,
     sessionID |-> message.info.sessionID,
     messageID |-> message.info.id,
     thinking  |-> thinkingContent,
     text      |-> EmptyString,
     synthetic |-> TRUE]

thinkingPart(message, thinkingContent) ==
    [type      |-> "thinking",
     id        |-> SYNTHETIC_THINKING_ID_PREFIX,
     sessionID |-> orEmptyString(message.info.sessionID),
     messageID |-> message.info.id,
     thinking  |-> thinkingContent,
     text      |-> EmptyString,
     synthetic |-> TRUE]

prependThinkingBlockPush(message, thinkingContent) ==
    [message EXCEPT !.parts = Append(@, thinkingPart(message, thinkingContent))]

prependThinkingBlockOverwrite(message, thinkingContent) ==
    [message EXCEPT !.parts =
        <<thinkingPart(message, thinkingContent)>> \o Tail(@)]

prependThinkingBlockSecond(message, thinkingContent) ==
    [message EXCEPT !.parts =
        IF Len(@) = 0 THEN <<thinkingPart(message, thinkingContent)>>
        ELSE <<Head(@), thinkingPart(message, thinkingContent)>> \o Tail(@)]

prependThinkingBlock(message, thinkingContent) ==
    [message EXCEPT !.parts =
        <<thinkingPart(message, thinkingContent)>>
            \o (IF @ = UndefinedParts THEN <<>> ELSE @)]

---------------------------------------------------------------------------
(* The hook: "experimental.chat.messages.transform" *)

\* whether the backward loop that looks for the last user message, at
\* index i, reads the role of an undefined info before it finds one
RECURSIVE lastUserThrows(_, _)
lastUserThrows(msgs, i) ==
    IF i < 1 THEN FALSE
    ELSE IF isUndefinedInfo(msgs[i].info) THEN TRUE
         ELSE IF msgs[i].info.role = "user" THEN FALSE
              ELSE lastUserThrows(msgs, i - 1)

\* the model id of the first user message, whatever follows it
firstUserModelID(msgs, i) ==
    LET users == {u \in 1..Len(msgs) : msgs[u].info.role = "user"} IN
    IF users = {} THEN EmptyString
    ELSE orEmptyString(msgs[CHOOSE u \in users : \A v \in users : u <= v].info.modelID)

\* the backward loop that finds the last user message, then
\* lastUserMessage?.info?.modelID || ""
RECURSIVE lastUserModelID(_, _)
lastUserModelID(msgs, i) ==
    IF i < 1 THEN EmptyString
    ELSE IF msgs[i].info.role = "user" THEN orEmptyString(msgs[i].info.modelID)
         ELSE lastUserModelID(msgs, i - 1)

\* previousThinking || DEFAULT_THINKING_CONTENT
thinkingContentNoDefault(msgs, i) == findPreviousThinkingContent(msgs, i)

thinkingContentAlwaysDefault(msgs, i) == DEFAULT_THINKING_CONTENT

thinkingContent(msgs, i) ==
    IF findPreviousThinkingContent(msgs, i) # EmptyString
    THEN findPreviousThinkingContent(msgs, i)
    ELSE DEFAULT_THINKING_CONTENT

\* one iteration of the forward loop, on messages[i]
fixMessageAnyRole(msgs, i) ==
    IF hasContentParts(msgs[i].parts) /\ ~startsWithThinkingBlock(msgs[i].parts)
    THEN [msgs EXCEPT ![i] = prependThinkingBlock(@, thinkingContent(msgs, i))]
    ELSE msgs

fixMessage(msgs, i) ==
    IF msgs[i].info.role # "assistant" THEN msgs
    ELSE IF hasContentParts(msgs[i].parts) /\ ~startsWithThinkingBlock(msgs[i].parts)
         THEN [msgs EXCEPT ![i] = prependThinkingBlock(@, thinkingContent(msgs, i))]
         ELSE msgs

\* the forward loop from index i to the end of the conversation
RECURSIVE fixAllStopAfterFirst(_, _)
fixAllStopAfterFirst(msgs, i) ==
    IF i > Len(msgs) THEN msgs
    ELSE IF fixMessage(msgs, i) # msgs THEN fixMessage(msgs, i)
         ELSE fixAllStopAfterFirst(msgs, i + 1)

\* the loop run from the last message down to the first
RECURSIVE fixDownFrom(_, _)
fixDownFrom(msgs, k) ==
    IF k < 1 THEN msgs ELSE fixDownFrom(fixMessage(msgs, k), k - 1)

fixAllDescending(msgs, i) == fixDownFrom(msgs, Len(msgs))

\* the loop ends at the first message whose info is undefined: reading
\* msg.info.role throws and the messages repaired so far stay repaired
RECURSIVE fixAll(_, _)
fixAll(msgs, i) ==
    IF i > Len(msgs) THEN msgs
    ELSE IF isUndefinedInfo(msgs[i].info) THEN msgs
         ELSE fixAll(fixMessage(msgs, i), i + 1)

messagesTransformNoModelCheck(msgs) ==
    IF Len(msgs) = 0 THEN msgs
    ELSE fixAll(msgs, 1)

\* output.messages when the hook returns or throws
messagesTransform(msgs) ==
    IF Len(msgs) = 0 THEN msgs
    ELSE IF lastUserThrows(msgs, Len(msgs)) THEN msgs
    ELSE IF ~isExtendedThinkingModel(lastUserModelID(msgs, Len(msgs))) THEN msgs
         ELSE fixAll(msgs, 1)

\* whether the hook throws a TypeError instead of returning
messagesTransformThrows(msgs) ==
    IF Len(msgs) = 0 THEN FALSE
    ELSE IF lastUserThrows(msgs, Len(msgs)) THEN TRUE
    ELSE IF ~isExtendedThinkingModel(lastUserModelID(msgs, Len(msgs))) THEN FALSE
         ELSE \E i \in 1..Len(msgs) : isUndefinedInfo(msgs[i].info)

---------------------------------------------------------------------------
(* validateMessage, validateMessages, getValidationStats *)

ValidResult == [valid |-> TRUE, fixed |-> FALSE]

\* thinkingContent.substring(0, 50)
substring50(text) == SubSeq(text, 1, IF Len(text) < 50 THEN Len(text) ELSE 50)

FixedResult(content) ==
    [valid  |-> FALSE,
     fixed  |-> TRUE,
     issue  |-> "Assistant message has content but no thinking block",
     action |-> <<"Prepended synthetic thinking block: ">> \o substring50(content)
                    \o <<"...">>]

validateMessageNoModelCheck(msgs, index, modelID) ==
    IF msgs[index].info.role # "assistant"
    THEN [messages |-> msgs, result |-> ValidResult]
    ELSE IF hasContentParts(msgs[index].parts)
            /\ ~startsWithThinkingBlock(msgs[index].parts)
         THEN LET content == thinkingContent(msgs, index) IN
              [messages |-> [msgs EXCEPT ![index] = prependThinkingBlock(@, content)],
               result   |-> FixedResult(content)]
         ELSE [messages |-> msgs, result |-> ValidResult]

\* validateMessage(messages[index], messages, index, modelID): the
\* conversation after the call and the result returned
validateMessage(msgs, index, modelID) ==
    IF msgs[index].info.role # "assistant"
    THEN [messages |-> msgs, result |-> ValidResult]
    ELSE IF ~isExtendedThinkingModel(modelID)
         THEN [messages |-> msgs, result |-> ValidResult]
         ELSE IF hasContentParts(msgs[index].parts)
                 /\ ~startsWithThinkingBlock(msgs[index].parts)
              THEN LET content == thinkingContent(msgs, index) IN
                   [messages |-> [msgs EXCEPT ![index] = prependThinkingBlock(@, content)],
                    result   |-> FixedResult(content)]
              ELSE [messages |-> msgs, result |-> ValidResult]

\* the loop of validateMessages from index i on, results so far given
RECURSIVE validateFrom(_, _, _, _)
validateFrom(msgs, modelID, i, results) ==
    IF i > Len(msgs) THEN [messages |-> msgs, results |-> results]
    ELSE LET validated == validateMessage(msgs, i, modelID)
         IN  validateFrom(validated.messages, modelID, i + 1,
                          Append(results, validated.result))

RECURSIVE validateAssistantsFrom(_, _, _, _)
validateAssistantsFrom(msgs, modelID, i, results) ==
    IF i > Len(msgs) THEN [messages |-> msgs, results |-> results]
    ELSE LET validated == validateMessage(msgs, i, modelID)
         IN  validateAssistantsFrom(validated.messages, modelID, i + 1,
                 IF msgs[i].info.role = "assistant"
                 THEN Append(results, validated.result)
                 ELSE results)

validateMessagesAssistantsOnly(msgs, modelID) ==
    validateAssistantsFrom(msgs, modelID, 1, <<>>)

validateMessages(msgs, modelID) == validateFrom(msgs, modelID, 1, <<>>)

\* results.filter(...).length for each of the four counts
getValidationStats(results) ==
    [total  |-> Len(results),
     valid  |-> Len(SelectSeq(results, LAMBDA r : r.valid /\ ~r.fixed)),
     fixed  |-> Len(SelectSeq(results, LAMBDA r : r.fixed)),
     issues |-> Len(SelectSeq(results, LAMBDA r : ~r.valid))]

---------------------------------------------------------------------------
(* Conversation snapshots handed to the hook *)

s_gpt_4 == <<"g", "p", "t", "-", "4">>
s_claude_opus_4_thinking ==
    <<"c", "l", "a", "u", "d", "e", "-", "o", "p", "u", "s", "-", "4", "-",
      "t", "h", "i", "n", "k", "i", "n", "g">>

ModelIDs == {s_gpt_4, s_claude_opus_4_thinking}

\* part types an assistant message is built from: a thinking-like variant,
\* a known content variant and an unknown variant
AssistantPartTypes == {"thinking", "tool_use", "step-start"}

\* decimal digit of an index
Digit(n) == <<"0", "1", "2", "3", "4", "5", "6", "7", "8", "9">>[n + 1]

MessageID(i) == <<"msg", Digit(i)>>

SessionID == <<"ses", "1">>

\* part k of message i; a thinking part carries the reasoning text of its own
\* turn and position, a text part carries text, the others carry neither
MessagePart(type, i, k) ==
    [type      |-> type,
     id        |-> <<"prt", Digit(i), Digit(k)>>,
     sessionID |-> SessionID,
     messageID |-> MessageID(i),
     thinking  |-> IF type = "thinking" THEN <<"r", Digit(i), Digit(k)>> ELSE EmptyString,
     text      |-> IF type = "text" THEN <<"q">> ELSE EmptyString,
     synthetic |-> FALSE]

MessageWithParts(role, modelID, i, types) ==
    [info  |-> [role |-> role, id |-> MessageID(i), sessionID |-> SessionID,
                modelID |-> modelID],
     parts |-> [k \in 1..Len(types) |-> MessagePart(types[k], i, k)]]

\* the lists of exactly n assistant part types
RECURSIVE TypeLists(_)
TypeLists(n) ==
    IF n = 0 THEN {<<>>}
    ELSE {<<t>> \o r : t \in AssistantPartTypes, r \in TypeLists(n - 1)}

UserAndSystemMessages(i) ==
    {MessageWithParts("user", m, i, <<"text">>) : m \in ModelIDs}
        \cup {MessageWithParts("system", EmptyString, i, <<"text">>)}

AssistantMessages(i, n) ==
    {MessageWithParts("assistant", EmptyString, i, l) : l \in TypeLists(n)}

\* number of parts held by the assistant messages of a conversation
RECURSIVE AssistantParts(_)
AssistantParts(msgs) ==
    IF msgs = <<>> THEN 0
    ELSE (IF /\ ~isUndefinedInfo(Head(msgs).info)
             /\ Head(msgs).info.role = "assistant"
             /\ Head(msgs).parts # UndefinedParts
          THEN Len(Head(msgs).parts) ELSE 0)
         + AssistantParts(Tail(msgs))

---------------------------------------------------------------------------
(* The state machine *)

NoCall == [fn |-> "none"]

Init ==
    /\ messages = <<>>
    /\ before = <<>>
    /\ passes = 0
    /\ threw = FALSE
    /\ call = NoCall

\* the caller appends a user or system turn to the snapshot it is building
AddUserOrSystemMessage ==
    /\ passes = 0
    /\ Len(messages) < MaxMsgs
    /\ \E m \in UserAndSystemMessages(Len(messages) + 1) :
           messages' = Append(messages, m)
    /\ before' = messages'
    /\ UNCHANGED <<passes, threw, call>>

\* the caller appends an assistant turn to the snapshot it is building
AddAssistantMessage ==
    /\ passes = 0
    /\ Len(messages) < MaxMsgs
    /\ \E n \in 0..(MaxParts - AssistantParts(messages)) :
           \E m \in AssistantMessages(Len(messages) + 1, n) :
               messages' = Append(messages, m)
    /\ before' = messages'
    /\ UNCHANGED <<passes, threw, call>>

\* one invocation of the hook on output.messages
Transform ==
    /\ passes < MaxPasses
    /\ before' = messages
    /\ messages' = messagesTransform(messages)
    /\ threw' = messagesTransformThrows(messages)
    /\ passes' = passes + 1
    /\ UNCHANGED call

Next ==
    \/ AddUserOrSystemMessage
    \/ AddAssistantMessage
    \/ Transform

Spec == Init /\ [][Next]_vars

---------------------------------------------------------------------------
(* Snapshots whose messages differ in model id and session id *)

InfoModelIDs == {s_gpt_4, s_claude_opus_4_thinking, UndefinedValue}

InfoSessionIDs == {SessionID, UndefinedValue}

InfoPartTypes == {"thinking", "tool_use"}

\* the lists of exactly n part types drawn from types
RECURSIVE TypeListsOf(_, _)
TypeListsOf(types, n) ==
    IF n = 0 THEN {<<>>}
    ELSE {<<t>> \o r : t \in types, r \in TypeListsOf(types, n - 1)}

AddInfoUserOrSystemMessage ==
    /\ passes = 0
    /\ Len(messages) < MaxMsgs
    /\ \/ \E m \in InfoModelIDs :
              messages' = Append(messages,
                  MessageWithParts("user", m, Len(messages) + 1, <<"text">>))
       \/ messages' = Append(messages,
              MessageWithParts("system", UndefinedValue, Len(messages) + 1, <<"text">>))
    /\ before' = messages'
    /\ UNCHANGED <<passes, threw, call>>

AddInfoAssistantMessage ==
    /\ passes = 0
    /\ Len(messages) < MaxMsgs
    /\ \E n \in 0..(MaxParts - AssistantParts(messages)) :
           \E l \in TypeListsOf(InfoPartTypes, n), sid \in InfoSessionIDs :
               messages' = Append(messages,
                   [MessageWithParts("assistant", UndefinedValue, Len(messages) + 1, l)
                       EXCEPT !.info.sessionID = sid])
    /\ before' = messages'
    /\ UNCHANGED <<passes, threw, call>>

NextInfo ==
    \/ AddInfoUserOrSystemMessage
    \/ AddInfoAssistantMessage
    \/ Transform

SpecInfo == Init /\ [][NextInfo]_vars

---------------------------------------------------------------------------
(* validateMessages called on a snapshot with a model id of the caller's   *)
(* choice, and getValidationStats on its results                           *)

AddValidateMessage ==
    /\ passes = 0
    /\ call = NoCall
    /\ Len(messages) < MaxMsgs
    /\ \/ \E m \in ModelIDs :
              messages' = Append(messages,
                  MessageWithParts("user", m, Len(messages) + 1, <<"text">>))
       \/ \E n \in 0..(MaxParts - AssistantParts(messages)) :
              \E l \in TypeListsOf(InfoPartTypes, n) :
                  messages' = Append(messages,
                      MessageWithParts("assistant", UndefinedValue,
                                       Len(messages) + 1, l))
    /\ before' = messages'
    /\ UNCHANGED <<passes, threw, call>>

ValidateMessages ==
    /\ passes = 0
    /\ call = NoCall
    /\ \E modelID \in InfoModelIDs :
           LET validated == validateMessages(messages, modelID) IN
           /\ messages' = validated.messages
           /\ call' = [fn      |-> "validateMessages",
                       modelID |-> modelID,
                       results |-> validated.results,
                       stats   |-> getValidationStats(validated.results)]
    /\ before' = messages
    /\ UNCHANGED <<passes, threw>>

NextValidate ==
    \/ AddValidateMessage
    \/ ValidateMessages

SpecValidate == Init /\ [][NextValidate]_vars

---------------------------------------------------------------------------
(* Snapshots whose thinking parts may have an empty text, and the exported *)
(* helpers called on their own                                            *)

\* "thinking-empty" is a thinking part whose thinking text is ""
TextsPartKinds == {"thinking", "thinking-empty", "tool_use"}

TextsThinkingContents == {DEFAULT_THINKING_CONTENT, <<"r">>}

TextsPart(kind, i, k) ==
    IF kind = "thinking-empty"
    THEN [MessagePart("thinking", i, k) EXCEPT !.thinking = EmptyString]
    ELSE MessagePart(kind, i, k)

TextsAssistantMessage(i, kinds) ==
    [MessageWithParts("assistant", UndefinedValue, i, <<>>)
        EXCEPT !.parts = [k \in 1..Len(kinds) |-> TextsPart(kinds[k], i, k)]]

AddTextsUserOrSystemMessage ==
    /\ passes = 0
    /\ call = NoCall
    /\ Len(messages) < MaxMsgs
    /\ \/ messages' = Append(messages,
              MessageWithParts("user", s_claude_opus_4_thinking,
                               Len(messages) + 1, <<"text">>))
       \/ messages' = Append(messages,
              MessageWithParts("system", UndefinedValue, Len(messages) + 1, <<"text">>))
    /\ before' = messages'
    /\ UNCHANGED <<passes, threw, call>>

AddTextsAssistantMessage ==
    /\ passes = 0
    /\ call = NoCall
    /\ Len(messages) < MaxMsgs
    /\ \E n \in 0..(MaxParts - AssistantParts(messages)) :
           \E l \in TypeListsOf(TextsPartKinds, n) :
               messages' = Append(messages,
                   TextsAssistantMessage(Len(messages) + 1, l))
    /\ before' = messages'
    /\ UNCHANGED <<passes, threw, call>>

\* the hook, run on a snapshot on which no helper was called
TransformTexts ==
    /\ call = NoCall
    /\ Transform

\* findPreviousThinkingContent(messages, currentIndex), currentIndex being
\* the index of a message of the snapshot (counted from 1 here)
FindPreviousThinkingContent ==
    /\ passes = 0
    /\ call = NoCall
    /\ \E currentIndex \in 1..Len(messages) :
           call' = [fn     |-> "findPreviousThinkingContent",
                    index  |-> currentIndex,
                    result |-> findPreviousThinkingContent(messages, currentIndex)]
    /\ UNCHANGED <<messages, before, passes, threw>>

\* prependThinkingBlock(messages[index], content)
PrependThinkingBlock ==
    /\ passes = 0
    /\ call = NoCall
    /\ \E index \in 1..Len(messages), content \in TextsThinkingContents :
           /\ messages' = [messages EXCEPT
                              ![index] = prependThinkingBlock(@, content)]
           /\ call' = [fn      |-> "prependThinkingBlock",
                       index   |-> index,
                       content |-> content]
    /\ before' = messages
    /\ UNCHANGED <<passes, threw>>

NextTexts ==
    \/ AddTextsUserOrSystemMessage
    \/ AddTextsAssistantMessage
    \/ TransformTexts
    \/ FindPreviousThinkingContent
    \/ PrependThinkingBlock

SpecTexts == Init /\ [][NextTexts]_vars

---------------------------------------------------------------------------
(* Snapshots whose thinking-like parts keep their text in the thinking     *)
(* field or in the text field, or hold only white space, and whose user    *)
(* and system messages hold thinking-like parts too                        *)

\* "reasoning-text" has an empty thinking field and its text in the text
\* field, "thinking-blank" a thinking field of white space and a text,
\* "reasoning-blank" an empty thinking field and a text of white space
WhitespacePartKinds ==
    {"reasoning-text", "thinking-blank", "reasoning-blank", "tool_use"}

WhitespacePart(kind, i, k) ==
    CASE kind = "reasoning-text" ->
             [MessagePart("reasoning", i, k) EXCEPT !.text = <<"t", Digit(i), Digit(k)>>]
      [] kind = "thinking-blank" ->
             [MessagePart("thinking", i, k) EXCEPT
                 !.thinking = <<" ", "\t">>, !.text = <<"x", Digit(i), Digit(k)>>]
      [] kind = "reasoning-blank" ->
             [MessagePart("reasoning", i, k) EXCEPT !.text = <<" ">>]
      [] OTHER -> MessagePart(kind, i, k)

WhitespaceMessage(role, modelID, i, kinds) ==
    [MessageWithParts(role, modelID, i, <<>>)
        EXCEPT !.parts = [k \in 1..Len(kinds) |-> WhitespacePart(kinds[k], i, k)]]

AddWhitespaceUserOrSystemMessage ==
    /\ passes = 0
    /\ call = NoCall
    /\ Len(messages) < MaxMsgs
    /\ \/ messages' = Append(messages,
              WhitespaceMessage("user", s_claude_opus_4_thinking,
                                Len(messages) + 1, <<"thinking">>))
       \/ messages' = Append(messages,
              WhitespaceMessage("system", UndefinedValue,
                                Len(messages) + 1, <<"reasoning-text">>))
    /\ before' = messages'
    /\ UNCHANGED <<passes, threw, call>>

AddWhitespaceAssistantMessage ==
    /\ passes = 0
    /\ call = NoCall
    /\ Len(messages) < MaxMsgs
    /\ \E n \in 0..(MaxParts - AssistantParts(messages)) :
           \E l \in TypeListsOf(WhitespacePartKinds, n) :
               messages' = Append(messages,
                   WhitespaceMessage("assistant", UndefinedValue,
                                     Len(messages) + 1, l))
    /\ before' = messages'
    /\ UNCHANGED <<passes, threw, call>>

NextWhitespace ==
    \/ AddWhitespaceUserOrSystemMessage
    \/ AddWhitespaceAssistantMessage
    \/ TransformTexts
    \/ FindPreviousThinkingContent

SpecWhitespace == Init /\ [][NextWhitespace]_vars

---------------------------------------------------------------------------
(* Snapshots holding malformed messages: no info, no role or no parts *)

MalformedMessages(i) ==
    {[MessageWithParts("assistant", UndefinedValue, i, <<"tool_use">>)
         EXCEPT !.info = UndefinedInfo],
     MessageWithParts("undefined", UndefinedValue, i, <<"tool_use">>),
     [MessageWithParts("assistant", UndefinedValue, i, <<>>)
         EXCEPT !.parts = UndefinedParts]}

AddMalformedMessage ==
    /\ passes = 0
    /\ Len(messages) < MaxMsgs
    /\ \E m \in MalformedMessages(Len(messages) + 1) :
           messages' = Append(messages, m)
    /\ before' = messages'
    /\ UNCHANGED <<passes, threw, call>>

AddWellFormedMessage ==
    /\ passes = 0
    /\ Len(messages) < MaxMsgs
    /\ \/ messages' = Append(messages,
              MessageWithParts("user", s_claude_opus_4_thinking,
                               Len(messages) + 1, <<"text">>))
       \/ \E n \in 0..(MaxParts - AssistantParts(messages)) :
              \E l \in TypeListsOf(InfoPartTypes, n) :
                  messages' = Append(messages,
                      MessageWithParts("assistant", UndefinedValue,
                                       Len(messages) + 1, l))
    /\ before' = messages'
    /\ UNCHANGED <<passes, threw, call>>

NextMalformed ==
    \/ AddMalformedMessage
    \/ AddWellFormedMessage
    \/ Transform

SpecMalformed == Init /\ [][NextMalformed]_vars

---------------------------------------------------------------------------
(* isExtendedThinkingModel called on its own, on model ids put together    *)
(* from segments in either case                                            *)

ModelIDSegments ==
    {<<"g", "p", "t", "-", "4">>,
     <<"c", "l", "a", "u", "d", "e", "-">>,
     <<"3">>,
     <<"O", "p", "u", "s", "-", "4">>,
     <<"S", "O", "N", "N", "E", "T", "-", "4">>,
     <<"-", "H", "i", "g", "h">>,
     <<"T", "h", "i", "n", "k">>,
     <<"i", "n", "g">>}

BeginModelID ==
    /\ call = NoCall
    /\ passes = 0
    /\ messages = <<>>
    /\ call' = [fn |-> "modelID", id |-> EmptyString, segments |-> 0]
    /\ UNCHANGED <<messages, before, passes, threw>>

AppendSegment ==
    /\ call.fn = "modelID"
    /\ call.segments < MaxSegments
    /\ \E seg \in ModelIDSegments :
           call' = [call EXCEPT !.id = @ \o seg, !.segments = @ + 1]
    /\ UNCHANGED <<messages, before, passes, threw>>

\* isExtendedThinkingModel(modelID); a missing id is undefined
IsExtendedThinkingModel ==
    /\ call.fn = "modelID"
    /\ \E modelID \in IF call.id = EmptyString
                       THEN {EmptyString, UndefinedValue}
                       ELSE {call.id} :
           call' = [fn     |-> "isExtendedThinkingModel",
                    id     |-> modelID,
                    result |-> isExtendedThinkingModel(modelID)]
    /\ UNCHANGED <<messages, before, passes, threw>>

NextModelID ==
    \/ BeginModelID
    \/ AppendSegment
    \/ IsExtendedThinkingModel

SpecModelID == Init /\ [][NextModelID]_vars

---------------------------------------------------------------------------
(* The configuration loader: deepMerge and loadConfig.  A configuration   *)
(* object is a function from its keys to values; a value is a scalar, an  *)
(* array, a plain object or undefined, told apart by its kind.            *)

Scalar(v) == [kind |-> "scalar", value |-> v]

ArrayOf(v) == [kind |-> "array", items |-> <<v>>]

Object(fields) == [kind |-> "object", fields |-> fields]

Undefined == [kind |-> "undefined"]

\* Object.assign semantics: a source value replaces the target value whole
deepMergeShallow(target, source) ==
    [result |-> [k \in DOMAIN target
                        \cup {j \in DOMAIN source : source[j].kind # "undefined"} |->
                    IF k \notin DOMAIN source THEN target[k]
                    ELSE IF source[k].kind # "undefined" THEN source[k]
                         ELSE target[k]],
     target |-> target]

\* deepMerge(target, source): the object returned and the target as the
\* call leaves it; only the copy { ...target } is written
RECURSIVE deepMerge(_, _)
deepMerge(target, source) ==
    [result |-> [k \in DOMAIN target
                        \cup {j \in DOMAIN source : source[j].kind # "undefined"} |->
                    IF k \notin DOMAIN source THEN target[k]
                    ELSE IF /\ source[k].kind = "object"
                            /\ k \in DOMAIN target
                            /\ target[k].kind = "object"
                         THEN Object(deepMerge(target[k].fields,
                                               source[k].fields).result)
                         ELSE IF source[k].kind # "undefined" THEN source[k]
                              ELSE target[k]],
     target |-> target]

AllConfigKeys == <<"features", "permissions", "mcpServers">>

ConfigKeys == {AllConfigKeys[n] : n \in 1..MaxKeys}

InnerKeys == {"lspTools", "astTools"}

DEFAULT_CONFIG ==
    [k \in ConfigKeys |-> Object([j \in InnerKeys |-> Scalar("default")])]

\* loadJsoncFile returns null when the file does not exist
NullConfig == [null |-> TRUE]

\* the plain objects a layer may hold under a key, their values naming the
\* layer
LayerObjects(layer) ==
    {Object([j \in keys |-> Scalar(layer)]) : keys \in (SUBSET InnerKeys) \ {{}}}

LayerValues(layer) ==
    {Undefined, Scalar(layer), ArrayOf(layer)} \cup LayerObjects(layer)

\* what loadJsoncFile(path) may return
FileConfigs(layer) ==
    {NullConfig}
        \cup UNION {[keys -> LayerValues(layer)] : keys \in SUBSET ConfigKeys}

\* what loadEnvConfig() may return: every key it sets holds a plain object
EnvConfigs ==
    UNION {[keys -> LayerObjects("env")] : keys \in SUBSET ConfigKeys}

\* config = deepMerge(config, layer), skipped when the file gave null; merge
\* holds the configuration so far and DEFAULT_CONFIG as the merges left it
mergeLayer(merge, layer) ==
    IF layer = NullConfig THEN merge
    ELSE [result |-> deepMerge(merge.result, layer).result,
          target |-> deepMerge(merge.target, layer).target]

loadConfig(defaults, userConfig, projectConfig, envConfig) ==
    mergeLayer(mergeLayer(mergeLayer([result |-> defaults, target |-> defaults],
                                     userConfig),
                          projectConfig),
               envConfig)

\* the record of a load: the layers read, the configuration returned and
\* DEFAULT_CONFIG as the load left it
Loaded(loads, defaults, userConfig, projectConfig, envConfig) ==
    LET loaded == loadConfig(defaults, userConfig, projectConfig, envConfig)
    IN  [fn             |-> "loadConfig",
         loads          |-> loads,
         user           |-> userConfig,
         project        |-> projectConfig,
         env            |-> envConfig,
         config         |-> loaded.result,
         DEFAULT_CONFIG |-> loaded.target]

\* the first loadConfig() of the process
LoadConfig ==
    /\ passes = 0
    /\ messages = <<>>
    /\ call = NoCall
    /\ \E userConfig \in FileConfigs("user"),
          projectConfig \in FileConfigs("project"),
          envConfig \in EnvConfigs :
           call' = Loaded(1, DEFAULT_CONFIG, userConfig, projectConfig, envConfig)
    /\ UNCHANGED <<messages, before, passes, threw>>

\* a later loadConfig() with the files and the environment as they were
ReloadConfig ==
    /\ call.fn = "loadConfig"
    /\ call.loads < MaxLoads
    /\ call' = Loaded(call.loads + 1, call.DEFAULT_CONFIG,
                       call.user, call.project, call.env)
    /\ UNCHANGED <<messages, before, passes, threw>>

NextConfig ==
    \/ LoadConfig
    \/ ReloadConfig

SpecConfig == Init /\ [][NextConfig]_vars

---------------------------------------------------------------------------
(* The hook step by step: one step per loop iteration, invocations of the  *)
(* async callback on well-formed snapshots, run by the event loop          *)

SnapshotKinds == {"user", "tool_use", "thinking"}

SnapshotMessage(kind, i) ==
    IF kind = "user"
    THEN MessageWithParts("user", s_claude_opus_4_thinking, i, <<"text">>)
    ELSE MessageWithParts("assistant", UndefinedValue, i, <<kind>>)

Snapshots ==
    UNION {{[i \in 1..n |-> SnapshotMessage(f[i], i)] : f \in [1..n -> SnapshotKinds]}
               : n \in 0..MaxSnapshotMsgs}

\* the output argument invocation k works on: const { messages } = output
outputOfFirst(k) == 1

outputOf(k) == k

\* whether the callback yields to the event loop after the iteration on
\* message i: the body holds no await
suspendsAfterIterationAwait(i) == TRUE

suspendsAfterIteration(i) == FALSE

\* i++ of the forward loop
nextIndexSkipsOne(i) == i + 2

nextIndex(i) == i + 1

\* the indices read by the outer loop of findPreviousThinkingContent, in
\* the order it reads them, from index i down
RECURSIVE searchBackIndices(_, _)
searchBackIndices(msgs, i) ==
    IF i < 1 THEN <<>>
    ELSE IF msgs[i].info.role # "assistant" THEN <<i>> \o searchBackIndices(msgs, i - 1)
         ELSE IF msgs[i].parts = UndefinedParts THEN <<i>> \o searchBackIndices(msgs, i - 1)
         ELSE IF scanParts(msgs[i].parts, 1) # EmptyString THEN <<i>>
              ELSE <<i>> \o searchBackIndices(msgs, i - 1)

\* locals of an invocation that has not started: pc is "pending", then
\* "loop" with i the next index of the forward loop, then "done"; visited
\* and searches list the messages the forward loop and each backward
\* search have read
NewInvocation(k) ==
    [messages |-> outputOf(k), pc |-> "pending", i |-> 0, fixedCount |-> 0,
     visited |-> <<>>, searches |-> <<>>]

\* the callback up to the forward loop
startInvocation(inv, msgs) ==
    IF Len(msgs) = 0 THEN [inv EXCEPT !.pc = "done"]
    ELSE IF ~isExtendedThinkingModel(lastUserModelID(msgs, Len(msgs)))
         THEN [inv EXCEPT !.pc = "done"]
         ELSE [inv EXCEPT !.pc = "loop", !.i = 1]

\* one test of the loop condition and, if it holds, one iteration
iterateInvocation(inv, msgs) ==
    IF inv.i > Len(msgs) THEN [inv EXCEPT !.pc = "done"]
    ELSE [inv EXCEPT
             !.visited = Append(@, inv.i),
             !.searches = IF fixMessage(msgs, inv.i) # msgs
                          THEN Append(@, [index |-> inv.i,
                                          read  |-> searchBackIndices(msgs, inv.i - 1)])
                          ELSE @,
             !.fixedCount = IF fixMessage(msgs, inv.i) # msgs THEN @ + 1 ELSE @,
             !.i = nextIndex(@)]

\* call holds the snapshots handed to the invocations (outputs), what they
\* were when handed over (inputs), the locals of each invocation and the
\* invocation on the call stack (0 when the event loop is idle)
ScheduleOn(snapshots) ==
    call' = [fn      |-> "invocations",
             inputs  |-> snapshots,
             outputs |-> snapshots,
             invs    |-> [k \in 1..Len(snapshots) |-> NewInvocation(k)],
             running |-> 0]

StepInvocation ==
    /\ call.fn = "invocations"
    /\ \E k \in 1..Len(call.invs) :
           LET inv  == call.invs[k]
               msgs == call.outputs[inv.messages]
               next == IF inv.pc = "pending" THEN startInvocation(inv, msgs)
                       ELSE iterateInvocation(inv, msgs)
           IN  /\ inv.pc # "done"
               /\ call.running \in {0, k}
               /\ call' = [call EXCEPT
                      !.invs[k] = next,
                      !.outputs[inv.messages] =
                          IF inv.pc = "loop" /\ inv.i <= Len(msgs)
                          THEN fixMessage(msgs, inv.i) ELSE @,
                      !.running =
                          IF next.pc = "done" THEN 0
                          ELSE IF inv.pc = "loop" /\ suspendsAfterIteration(inv.i) THEN 0
                          ELSE k]
    /\ UNCHANGED <<messages, before, passes, threw>>

\* one invocation on one snapshot
SchedulePass ==
    /\ call = NoCall
    /\ passes = 0
    /\ messages = <<>>
    /\ \E c \in Snapshots : ScheduleOn(<<c>>)
    /\ UNCHANGED <<messages, before, passes, threw>>

NextPass ==
    \/ SchedulePass
    \/ StepInvocation

SpecPass == Init /\ [][NextPass]_vars

FairSpecPass == SpecPass /\ WF_vars(StepInvocation)

\* two invocations for concurrent API calls, each with its own snapshot
ScheduleInvocations ==
    /\ call = NoCall
    /\ passes = 0
    /\ messages = <<>>
    /\ \E c1, c2 \in Snapshots : ScheduleOn(<<c1, c2>>)
    /\ UNCHANGED <<messages, before, passes, threw>>

NextInvocations ==
    \/ ScheduleInvocations
    \/ StepInvocation

SpecInvocations == Init /\ [][NextInvocations]_vars

---------------------------------------------------------------------------
(* Vocabulary of the properties, stated independently of the hook's code *)

IsThinkingLike(part) == part.type \in THINKING_PART_TYPES

\* hasContent of the specification: at least one non-thinking-like part
HasContent(parts) == \E k \in 1..Len(parts) : ~IsThinkingLike(parts[k])

StartsWithThinking(parts) == Len(parts) > 0 /\ IsThinkingLike(parts[1])

IsAssistant(c, i) == c[i].info.role = "assistant"

UserIndices(c) == {i \in 1..Len(c) : c[i].info.role = "user"}

\* model id of the most recent user message, "" if there is none
ActiveModel(c) ==
    IF UserIndices(c) = {} THEN EmptyString
    ELSE c[CHOOSE i \in UserIndices(c) : \A j \in UserIndices(c) : j <= i].info.modelID

Enforcing(c) == isExtendedThinkingModel(ActiveModel(c))

\* an assistant message with content that does not start with thinking
Unguarded(c, i) ==
    /\ IsAssistant(c, i)
    /\ HasContent(c[i].parts)
    /\ ~StartsWithThinking(c[i].parts)

InViolation(c, i) == Unguarded(c, i) /\ Enforcing(c)

Violations(c) ==
    IF Enforcing(c) THEN {i \in 1..Len(c) : Unguarded(c, i)} ELSE {}

NonThinkingParts(parts) == SelectSeq(parts, LAMBDA p : ~IsThinkingLike(p))

\* number of synthetic parts in a part list, and in a conversation
RECURSIVE SyntheticIn(_, _)
SyntheticIn(parts, k) ==
    IF k > Len(parts) THEN 0
    ELSE (IF parts[k].synthetic THEN 1 ELSE 0) + SyntheticIn(parts, k + 1)

RECURSIVE SyntheticFrom(_, _)
SyntheticFrom(c, i) ==
    IF i > Len(c) THEN 0
    ELSE SyntheticIn(c[i].parts, 1) + SyntheticFrom(c, i + 1)

SyntheticCount(c) == SyntheticFrom(c, 1)

\* the text a thinking-like part carries, and whether it is more than blanks
TextOf(part) == IF part.thinking # <<>> THEN part.thinking ELSE part.text

HasThinkingText(part) ==
    /\ IsThinkingLike(part)
    /\ \E k \in 1..Len(TextOf(part)) : TextOf(part)[k] \notin WhiteSpace

ThinkingTexts(parts) == SelectSeq(parts, HasThinkingText)

\* assistant messages before index j that hold non-empty thinking content
ThinkingSources(c, j) ==
    {i \in 1..(j - 1) :
        IsAssistant(c, i) /\ \E k \in 1..Len(c[i].parts) : HasThinkingText(c[i].parts[k])}

\* messages[i] is before[i] with one synthetic thinking part put in front
GainedSynthetic(i) ==
    /\ Len(messages[i].parts) = Len(before[i].parts) + 1
    /\ Tail(messages[i].parts) = before[i].parts
    /\ messages[i].parts[1].type = "thinking"
    /\ messages[i].parts[1].synthetic
    /\ messages[i].info = before[i].info

---------------------------------------------------------------------------
(* C1: after a pass under an enforcing model, every assistant message that *)
(* has content starts with a thinking-like part.                           *)
Thm_C1_InvariantEstablished ==
    (passes >= 1 /\ Enforcing(before)) =>
        \A i \in 1..Len(messages) :
            (IsAssistant(messages, i) /\ HasContent(messages[i].parts))
                => StartsWithThinking(messages[i].parts)

Wit_C1_RepairedMessage ==
    /\ passes = 1
    /\ Enforcing(before)
    /\ \E i \in 1..Len(before) :
           /\ InViolation(before, i)
           /\ StartsWithThinking(messages[i].parts)
           /\ HasContent(messages[i].parts)

(* C2: the enforcer is idempotent: a second pass on the result of the      *)
(* first changes nothing.                                                  *)
Thm_C2_Idempotent == passes >= 2 => messages = before

Wit_C2_SecondPassAfterRepair ==
    /\ passes = 2
    /\ messages = before
    /\ SyntheticCount(messages) >= 2

(* C3: when the latest user message's model id is not enforcing (such as   *)
(* "gpt-4", or no user message at all), a pass leaves the conversation     *)
(* unchanged.                                                              *)
Thm_C3_NoOpOnNonEnforcing ==
    passes >= 1 =>
        /\ ActiveModel(before) \in {s_gpt_4, EmptyString} => messages = before
        /\ messages # before => Enforcing(before)

Wit_C3_Gpt4WithToolUse ==
    /\ passes = 1
    /\ ActiveModel(before) = s_gpt_4
    /\ \E i \in 1..Len(before) :
           /\ IsAssistant(before, i)
           /\ Len(before[i].parts) = 1
           /\ before[i].parts[1].type = "tool_use"
    /\ messages = before

(* C4: for every message the non-thinking parts are the same, in the same  *)
(* order, before and after a pass, and every part that existed is still    *)
(* there, unchanged and in the same order.                                 *)
Thm_C4_ContentPreserved ==
    passes >= 1 =>
        /\ Len(messages) = Len(before)
        /\ \A i \in 1..Len(before) :
               /\ NonThinkingParts(messages[i].parts) = NonThinkingParts(before[i].parts)
               /\ Len(messages[i].parts) >= Len(before[i].parts)
               /\ SubSeq(messages[i].parts,
                         Len(messages[i].parts) - Len(before[i].parts) + 1,
                         Len(messages[i].parts)) = before[i].parts

Wit_C4_RepairedTwoContentParts ==
    /\ passes = 1
    /\ \E i \in 1..Len(before) :
           /\ messages[i] # before[i]
           /\ Len(NonThinkingParts(before[i].parts)) >= 2
           /\ before[i].parts[1].type # before[i].parts[2].type

(* C5: a violating message preceded by an assistant message with non-empty *)
(* thinking content receives the thinking text of the most recent such     *)
(* message, wherever that text sits and whether or not that message is     *)
(* itself in violation.                                                    *)
Claim_C5_ReusesMostRecentThinking ==
    passes >= 1 =>
        \A j \in Violations(before) :
            ThinkingSources(before, j) # {} =>
                LET i == CHOOSE x \in ThinkingSources(before, j) :
                             \A y \in ThinkingSources(before, j) : y <= x
                IN  /\ messages[j].parts[1].synthetic
                    /\ messages[j].parts[1].thinking
                           = TextOf(ThinkingTexts(before[i].parts)[1])

(* C6: a violating message with no non-empty thinking content in any       *)
(* earlier assistant message receives the default placeholder.             *)
Thm_C6_FallbackPlaceholder ==
    passes >= 1 =>
        \A j \in Violations(before) :
            ThinkingSources(before, j) = {} =>
                /\ GainedSynthetic(j)
                /\ messages[j].parts[1].thinking = DEFAULT_THINKING_CONTENT

Wit_C6_ScenarioA ==
    /\ passes = 1
    /\ Len(before) = 2
    /\ before[1].info.role = "user"
    /\ before[1].info.modelID = s_claude_opus_4_thinking
    /\ IsAssistant(before, 2)
    /\ Len(before[2].parts) = 1
    /\ before[2].parts[1].type = "tool_use"
    /\ messages[2].parts =
           <<thinkingPart(before[2], DEFAULT_THINKING_CONTENT), before[2].parts[1]>>

(* C7: one pass repairs every violating message: with k messages in        *)
(* violation exactly k synthetic parts are inserted, one at the front of   *)
(* each.                                                                   *)
Thm_C7_AllViolationsRepaired ==
    passes >= 1 =>
        LET k == Violations(before) IN
        /\ SyntheticCount(messages) = SyntheticCount(before) + Cardinality(k)
        /\ \A j \in k : GainedSynthetic(j)

Wit_C7_TwoRepairs ==
    /\ passes = 1
    /\ Cardinality(Violations(before)) >= 2
    /\ \A j \in Violations(before) : messages[j].parts[1].synthetic

(* C8: a message gains a synthetic thinking part if and only if it is an   *)
(* assistant message with content that does not start with a thinking-like *)
(* part and the active model is enforcing; it then gains exactly one, and  *)
(* every other message is unchanged.                                       *)
Thm_C8_PrependIffViolation ==
    passes >= 1 =>
        /\ Len(messages) = Len(before)
        /\ LET enforcing == Enforcing(before) IN
           \A i \in 1..Len(before) :
               IF Unguarded(before, i) /\ enforcing
               THEN GainedSynthetic(i)
               ELSE messages[i] = before[i]

Wit_C8_RepairedAndUntouched ==
    /\ passes = 1
    /\ \E i, j \in 1..Len(before) :
           /\ InViolation(before, i)
           /\ messages[i] # before[i]
           /\ IsAssistant(before, j)
           /\ HasContent(before[j].parts)
           /\ StartsWithThinking(before[j].parts)
           /\ messages[j] = before[j]

(* C9: an assistant message whose parts are all of an unknown variant      *)
(* (neither thinking-like nor tool/text) counts as having content and is   *)
(* repaired under an enforcing model.                                      *)
KnownContentTypes == {"tool", "tool_use", "text"}

AllUnknown(parts) ==
    /\ Len(parts) > 0
    /\ \A k \in 1..Len(parts) :
           parts[k].type \notin (THINKING_PART_TYPES \cup KnownContentTypes)

Thm_C9_UnknownPartsAreContent ==
    (passes >= 1 /\ Enforcing(before)) =>
        \A i \in 1..Len(before) :
            (IsAssistant(before, i) /\ AllUnknown(before[i].parts))
                => GainedSynthetic(i)

Wit_C9_UnknownOnlyRepaired ==
    /\ passes = 1
    /\ Enforcing(before)
    /\ \E i \in 1..Len(before) :
           /\ IsAssistant(before, i)
           /\ AllUnknown(before[i].parts)
           /\ messages[i].parts[1].synthetic

(* C10: a pass keeps the number and order of the messages and every        *)
(* message's role and info, and leaves user and system messages untouched; *)
(* only assistant messages may gain a part.                                *)
Thm_C10_MessagesAndRolesKept ==
    passes >= 1 =>
        /\ Len(messages) = Len(before)
        /\ \A i \in 1..Len(before) :
               /\ messages[i].info = before[i].info
               /\ ~IsAssistant(before, i) => messages[i] = before[i]
               /\ Len(messages[i].parts) >= Len(before[i].parts)

Wit_C10_UserKeptAssistantRepaired ==
    /\ passes = 1
    /\ \E i, j \in 1..Len(before) :
           /\ before[i].info.role = "user"
           /\ before[j].info.role = "system"
           /\ ~StartsWithThinking(before[i].parts)
           /\ messages[i] = before[i]
           /\ messages[j] = before[j]
    /\ \E i \in 1..Len(before) : messages[i] # before[i]

(* C13: the backward search never looks forward: the text inserted into   *)
(* the violating message at index i is never the text of a thinking part   *)
(* of that message itself or of a later message.                           *)
Thm_C13_NeverLooksForward ==
    passes >= 1 =>
        \A i \in Violations(before) :
            \A j \in i..Len(before) :
                \A k \in 1..Len(before[j].parts) :
                    HasThinkingText(before[j].parts[k]) =>
                        messages[i].parts[1].thinking # TextOf(before[j].parts[k])

Wit_C13_LaterThinkingNotReused ==
    /\ passes = 1
    /\ \E i \in Violations(before) :
           /\ \E k \in 1..Len(before[i].parts) : HasThinkingText(before[i].parts[k])
           /\ \E j \in (i + 1)..Len(before) :
                  /\ IsAssistant(before, j)
                  /\ \E k \in 1..Len(before[j].parts) :
                         HasThinkingText(before[j].parts[k])
           /\ messages[i].parts[1].synthetic

(* C18: an assistant message with an empty or absent part list is never   *)
(* in violation: a pass under an enforcing model leaves it without parts   *)
(* and inserts no synthetic part into it.                                  *)
Thm_C18_EmptyPartsUntouched ==
    passes >= 1 =>
        \A i \in 1..Len(before) :
            (/\ ~isUndefinedInfo(before[i].info)
             /\ before[i].info.role = "assistant"
             /\ (before[i].parts = UndefinedParts \/ Len(before[i].parts) = 0))
                => messages[i] = before[i]

Wit_C18_EmptyAssistantKept ==
    /\ passes = 1
    /\ ~threw
    /\ Len(before) = 3
    /\ before[1].info.role = "user"
    /\ before[2].info.role = "assistant"
    /\ before[2].parts = UndefinedParts
    /\ messages[2] = before[2]
    /\ before[3].info.role = "assistant"
    /\ messages[3] # before[3]

(* C11: the verdict of the model id of the most recent user message alone *)
(* decides the pass: ids of earlier user messages are ignored, an enforcing *)
(* id repairs every violating assistant message, those before the last     *)
(* user message included, and an empty conversation, one without user       *)
(* message or a last user message without model id is left unmodified.      *)
Thm_C11_LastUserModelDecides ==
    passes >= 1 =>
        LET users == UserIndices(before)
            id == IF users = {} THEN UndefinedValue
                  ELSE before[CHOOSE u \in users : \A v \in users : v <= u].info.modelID
        IN  /\ id \in {UndefinedValue, EmptyString, s_gpt_4} => messages = before
            /\ id = s_claude_opus_4_thinking =>
                   \A i \in 1..Len(before) :
                       IF Unguarded(before, i)
                       THEN GainedSynthetic(i)
                       ELSE messages[i] = before[i]

Wit_C11_EarlierIdIgnored ==
    /\ passes = 1
    /\ Len(before) = 3
    /\ before[1].info.role = "user"
    /\ before[1].info.modelID = s_gpt_4
    /\ Unguarded(before, 2)
    /\ before[3].info.role = "user"
    /\ before[3].info.modelID = s_claude_opus_4_thinking
    /\ messages[2].parts[1].synthetic

(* C14: every inserted part is a thinking part with synthetic = true, the  *)
(* fixed synthetic id, the id of its message as messageID and the session  *)
(* id of its message, or "" if it has none, as sessionID; the parts that   *)
(* existed keep all their fields.                                          *)
Thm_C14_SyntheticPartFields ==
    passes >= 1 =>
        \A i \in 1..Len(before) :
            LET new == Len(messages[i].parts) - Len(before[i].parts) IN
            /\ new >= 0
            /\ SubSeq(messages[i].parts, new + 1, Len(messages[i].parts))
                   = before[i].parts
            /\ \A k \in 1..new :
                   LET p == messages[i].parts[k] IN
                   /\ p.type = "thinking"
                   /\ p.synthetic = TRUE
                   /\ p.id = SYNTHETIC_THINKING_ID_PREFIX
                   /\ p.messageID = before[i].info.id
                   /\ p.sessionID = IF before[i].info.sessionID = UndefinedValue
                                    THEN EmptyString
                                    ELSE before[i].info.sessionID

Wit_C14_WithAndWithoutSession ==
    /\ passes = 1
    /\ \E i, j \in 1..Len(before) :
           /\ before[i].info.sessionID = UndefinedValue
           /\ before[j].info.sessionID = SessionID
           /\ Unguarded(before, i)
           /\ Unguarded(before, j)
           /\ messages[i].parts[1].synthetic
           /\ messages[j].parts[1].synthetic
           /\ messages[i].parts[1].sessionID = EmptyString
           /\ messages[j].parts[1].sessionID = SessionID
           /\ messages[i].parts[1].id = messages[j].parts[1].id

(* C12: findPreviousThinkingContent(messages, i) returns the text of the   *)
(* first non-empty thinking-like part, in part order, of the most recent   *)
(* assistant message before i that has one, user and system messages being *)
(* skipped, and the empty string when no earlier assistant message has     *)
(* non-empty thinking content.                                             *)
Thm_C12_MostRecentEarlierThinking ==
    call.fn = "findPreviousThinkingContent" =>
        LET sources == ThinkingSources(messages, call.index) IN
        IF sources = {} THEN call.result = EmptyString
        ELSE LET j == CHOOSE s \in sources : \A t \in sources : t <= s
             IN  call.result = TextOf(Head(ThinkingTexts(messages[j].parts)))

Wit_C12_SkipsUserAndEmptyPart ==
    /\ call.fn = "findPreviousThinkingContent"
    /\ call.index = 3
    /\ messages[2].info.role = "user"
    /\ IsAssistant(messages, 1)
    /\ Len(messages[1].parts) = 3
    /\ messages[1].parts[1].type = "thinking"
    /\ messages[1].parts[1].thinking = EmptyString
    /\ messages[1].parts[2].type = "thinking"
    /\ messages[1].parts[3].type = "thinking"
    /\ messages[1].parts[3].thinking # EmptyString
    /\ call.result = messages[1].parts[2].thinking
    /\ call.result # EmptyString

(* C15: prependThinkingBlock(message, content) makes the part list of the  *)
(* message the synthetic part followed by the old list unchanged, and      *)
(* leaves every other message of the conversation as it was.               *)
Thm_C15_PrependAtFront ==
    call.fn = "prependThinkingBlock" =>
        /\ Len(messages) = Len(before)
        /\ \A j \in 1..Len(before) :
               IF j = call.index
               THEN /\ messages[j].info = before[j].info
                    /\ Len(messages[j].parts) = Len(before[j].parts) + 1
                    /\ Tail(messages[j].parts) = before[j].parts
                    /\ Head(messages[j].parts).synthetic
                    /\ Head(messages[j].parts).type = "thinking"
                    /\ Head(messages[j].parts).thinking = call.content
               ELSE messages[j] = before[j]

Wit_C15_PrependedBeforeThinking ==
    /\ call.fn = "prependThinkingBlock"
    /\ Len(before) = 3
    /\ call.index = 2
    /\ Len(before[2].parts) = 2
    /\ before[2].parts[1].type = "thinking"
    /\ before[2].parts[2].type = "tool_use"
    /\ Len(messages[2].parts) = 3
    /\ messages[2].parts[2] = before[2].parts[1]
    /\ IsAssistant(before, 3)
    /\ Unguarded(before, 3)
    /\ messages[3] = before[3]

(* C19: a pass never modifies an assistant message whose first part is     *)
(* thinking-like, whatever follows that part and even when its thinking    *)
(* text is empty.                                                          *)
Thm_C19_ThinkingFirstUntouched ==
    passes >= 1 =>
        \A i \in 1..Len(before) :
            (IsAssistant(before, i) /\ StartsWithThinking(before[i].parts))
                => messages[i] = before[i]

Wit_C19_EmptyThinkingFirstKept ==
    /\ passes = 1
    /\ Enforcing(before)
    /\ \E i, j \in 1..Len(before) :
           /\ IsAssistant(before, i)
           /\ Len(before[i].parts) = 2
           /\ before[i].parts[1].type = "thinking"
           /\ before[i].parts[1].thinking = EmptyString
           /\ before[i].parts[2].type = "tool_use"
           /\ messages[i] = before[i]
           /\ Unguarded(before, j)
           /\ messages[j] # before[j]

\* a message without info, without role or without parts
Malformed(m) ==
    \/ isUndefinedInfo(m.info)
    \/ m.info.role = "undefined"
    \/ m.parts = UndefinedParts

\* the most recent message with role user carries an enforcing model id
EnforcingDespiteMalformed(c) ==
    LET users == {i \in 1..Len(c) :
                     ~isUndefinedInfo(c[i].info) /\ c[i].info.role = "user"}
    IN  /\ users # {}
        /\ isExtendedThinkingModel(
               c[CHOOSE u \in users : \A v \in users : v <= u].info.modelID)

(* C16: a pass that ends in an internal error, such as meeting a message   *)
(* without info after earlier messages were repaired, leaves the           *)
(* conversation exactly as it was before the pass.                         *)
Claim_C16_FailClosed ==
    (passes >= 1 /\ threw) => messages = before

(* C17: a malformed message (no info, no role or no parts) does not make   *)
(* the pass throw; it is left as it is and every violating message of the  *)
(* conversation is still repaired in the same pass.                        *)
Claim_C17_MalformedSkipped ==
    passes >= 1 =>
        /\ ~threw
        /\ \A i \in 1..Len(before) :
               IF Malformed(before[i]) THEN messages[i] = before[i]
               ELSE (EnforcingDespiteMalformed(before) /\ Unguarded(before, i))
                        => GainedSynthetic(i)

\* the letters, upper case and lower case
CasePairs ==
    {<<"A", "a">>, <<"B", "b">>, <<"C", "c">>, <<"D", "d">>, <<"E", "e">>,
     <<"F", "f">>, <<"G", "g">>, <<"H", "h">>, <<"I", "i">>, <<"J", "j">>,
     <<"K", "k">>, <<"L", "l">>, <<"M", "m">>, <<"N", "n">>, <<"O", "o">>,
     <<"P", "p">>, <<"Q", "q">>, <<"R", "r">>, <<"S", "s">>, <<"T", "t">>,
     <<"U", "u">>, <<"V", "v">>, <<"W", "w">>, <<"X", "x">>, <<"Y", "y">>,
     <<"Z", "z">>}

SameIgnoringCase(a, b) ==
    a = b \/ <<a, b>> \in CasePairs \/ <<b, a>> \in CasePairs

\* token occurs in id from position k + 1 on, case ignored
OccursAt(id, token, k) ==
    \A j \in 1..Len(token) : SameIgnoringCase(id[k + j], token[j])

ContainsToken(id, token) ==
    \E k \in 0..(Len(id) - Len(token)) : OccursAt(id, token, k)

EndsWithToken(id, token) ==
    Len(id) >= Len(token) /\ OccursAt(id, token, Len(id) - Len(token))

(* C20: isExtendedThinkingModel(id) is false for the empty or missing id   *)
(* and, case ignored, true exactly when the id contains "thinking", ends   *)
(* with "-high" or contains "claude-sonnet-4", "claude-opus-4" or          *)
(* "claude-3"; it is false for every other id.                             *)
Thm_C20_EnforcingModelIds ==
    call.fn = "isExtendedThinkingModel" =>
        call.result =
            (/\ call.id \notin {EmptyString, UndefinedValue}
             /\ \/ ContainsToken(call.id, s_thinking)
                \/ EndsWithToken(call.id, s_high)
                \/ ContainsToken(call.id, s_claude_sonnet_4)
                \/ ContainsToken(call.id, s_claude_opus_4)
                \/ ContainsToken(call.id, s_claude_3))

Wit_C20_HighSuffixOnly ==
    /\ call.fn = "isExtendedThinkingModel"
    /\ call.id = <<"g", "p", "t", "-", "4", "-", "H", "i", "g", "h">>
    /\ call.result = TRUE

\* the closest assistant message before index j, 0 if there is none
NearestAssistantBefore(c, j) ==
    LET earlier == {i \in 1..(j - 1) : IsAssistant(c, i)} IN
    IF earlier = {} THEN 0
    ELSE CHOOSE i \in earlier : \A k \in earlier : k <= i

(* C21: when the nearest assistant message before a violating one already  *)
(* begins with a genuine non-empty thinking part, a pass under an enforcing *)
(* model leaves the earlier message unchanged and gives the later one a     *)
(* synthetic thinking part with the same text, followed by its old parts.   *)
Thm_C21_ReusesLeadingThinking ==
    passes >= 1 =>
        \A j \in Violations(before) :
            LET i == NearestAssistantBefore(before, j) IN
            (/\ i > 0
             /\ StartsWithThinking(before[i].parts)
             /\ ~before[i].parts[1].synthetic
             /\ HasThinkingText(before[i].parts[1]))
                => /\ messages[i] = before[i]
                   /\ GainedSynthetic(j)
                   /\ messages[j].parts[1].thinking = TextOf(before[i].parts[1])

Wit_C21_ThinkingThenToolUse ==
    /\ passes = 1
    /\ Len(before) = 3
    /\ before[1].info.role = "user"
    /\ Enforcing(before)
    /\ IsAssistant(before, 2)
    /\ Len(before[2].parts) = 2
    /\ before[2].parts[1].type = "thinking"
    /\ before[2].parts[2].type = "tool_use"
    /\ Unguarded(before, 3)
    /\ messages[3].parts[1].synthetic
    /\ messages[3].parts[1].thinking = before[2].parts[1].thinking
    /\ messages[2] = before[2]

AllDone ==
    /\ call.fn = "invocations"
    /\ \A k \in 1..Len(call.invs) : call.invs[k].pc = "done"

(* C22: invocations for concurrent calls, each on its own snapshot, share   *)
(* no mutable state: in whatever order they run, once all have returned     *)
(* each snapshot is what the hook makes of that snapshot alone.             *)
Thm_C22_InvocationsIndependent ==
    AllDone =>
        \A k \in 1..Len(call.inputs) :
            call.outputs[k] = messagesTransform(call.inputs[k])

Wit_C22_BothRepaired ==
    /\ AllDone
    /\ Len(call.inputs) = 2
    /\ call.inputs[1] # call.inputs[2]
    /\ call.outputs[1] # call.inputs[1]
    /\ call.outputs[2] # call.inputs[2]

(* C23: a pass has no suspension point: whenever the event loop is idle, so *)
(* that another callback can run, every snapshot is either untouched or     *)
(* fully repaired, never repaired in part.                                  *)
Thm_C23_NoSuspensionPoint ==
    (call.fn = "invocations" /\ call.running = 0) =>
        \A k \in 1..Len(call.inputs) :
            \/ call.outputs[k] = call.inputs[k]
            \/ call.outputs[k] = messagesTransform(call.inputs[k])

Wit_C23_PartialOnlyWhileRunning ==
    /\ call.fn = "invocations"
    /\ call.running = 1
    /\ call.outputs[1] # call.inputs[1]
    /\ call.outputs[1] # messagesTransform(call.inputs[1])

\* the forward loop has read messages 1, 2, ... in this order, each once,
\* and each backward search for message index has read index - 1,
\* index - 2, ... and no more than the index - 1 earlier messages
VisitsInOrder(inv, input) ==
    /\ Len(inv.visited) <= Len(input)
    /\ \A p \in 1..Len(inv.visited) : inv.visited[p] = p
    /\ (inv.pc = "done" /\ inv.i > 0) => Len(inv.visited) = Len(input)
    /\ \A s \in 1..Len(inv.searches) :
           LET search == inv.searches[s] IN
           /\ Len(search.read) <= search.index - 1
           /\ \A q \in 1..Len(search.read) : search.read[q] = search.index - q

(* C24: on every finite well-formed conversation the pass terminates; its   *)
(* repair loop visits each message exactly once in ascending order, and     *)
(* each backward search for a violating message at index i reads at most    *)
(* the i earlier messages, downwards, and stops at the first message.       *)
Thm_C24_PassTerminates ==
    /\ [](call.fn = "invocations" => VisitsInOrder(call.invs[1], call.inputs[1]))
    /\ (call.fn = "invocations") ~> AllDone

Wit_C24_SearchReachedFirstMessage ==
    /\ AllDone
    /\ Len(call.inputs[1]) = 3
    /\ call.invs[1].visited = <<1, 2, 3>>
    /\ \E s \in 1..Len(call.invs[1].searches) :
           /\ call.invs[1].searches[s].index = 3
           /\ call.invs[1].searches[s].read = <<2, 1>>

\* the texts of the thinking-like parts of the assistant messages of c
\* before index i
EarlierAssistantTexts(c, i) ==
    {TextOf(c[j].parts[k]) :
        <<j, k>> \in {<<j, k>> \in (1..(i - 1)) \X (1..MaxParts + MaxPasses + 1) :
                         /\ IsAssistant(c, j)
                         /\ k <= Len(c[j].parts)
                         /\ IsThinkingLike(c[j].parts[k])}}

\* the non-empty texts of all parts of the user and system messages of c
NonAssistantTexts(c) ==
    {TextOf(c[j].parts[k]) :
        <<j, k>> \in {<<j, k>> \in (1..Len(c)) \X (1..MaxParts + MaxPasses + 1) :
                         /\ ~IsAssistant(c, j)
                         /\ k <= Len(c[j].parts)}} \ {EmptyString}

(* C26: after a pass, the text of every synthetic part inserted into the   *)
(* message at index i is the default placeholder or the text of a          *)
(* thinking-like part that the input held in an assistant message at a     *)
(* smaller index; it is never taken from a user or system message.         *)
Thm_C26_SyntheticProvenance ==
    passes >= 1 =>
        \A i \in 1..Len(before) :
            \A k \in 1..(Len(messages[i].parts) - Len(before[i].parts)) :
                LET text == messages[i].parts[k].thinking IN
                /\ \/ text = DEFAULT_THINKING_CONTENT
                   \/ text \in EarlierAssistantTexts(before, i)
                /\ text \notin NonAssistantTexts(before)

Wit_C26_UserThinkingNotUsed ==
    /\ passes = 1
    /\ Len(before) = 3
    /\ IsAssistant(before, 1)
    /\ Len(before[1].parts) = 1
    /\ before[1].parts[1].type = "reasoning"
    /\ before[1].parts[1].text # EmptyString
    /\ before[2].info.role = "user"
    /\ HasThinkingText(before[2].parts[1])
    /\ Unguarded(before, 3)
    /\ messages[3].parts[1].synthetic
    /\ messages[3].parts[1].thinking = before[1].parts[1].text
    /\ messages[3].parts[1].thinking # DEFAULT_THINKING_CONTENT

\* a text without a character that is not white space
Blank(text) == \A n \in 1..Len(text) : text[n] \in WhiteSpace

\* the part counts in the backward search: thinking-like, and its thinking
\* field, or its text field when the thinking field is empty, is not blank
Counts(part) ==
    /\ IsThinkingLike(part)
    /\ ~Blank(IF part.thinking = EmptyString THEN part.text ELSE part.thinking)

NoneCounts(parts) == \A k \in 1..Len(parts) : ~Counts(parts[k])

(* C27: in the backward search a thinking-like part counts as non-empty    *)
(* only if its text has a character that is not white space: an empty      *)
(* thinking field falls back to the text field, an empty or blank text is  *)
(* skipped, and the search goes on with the later parts of the message and *)
(* then with earlier assistant messages.                                   *)
Thm_C27_BlankTextSkipped ==
    call.fn = "findPreviousThinkingContent" =>
        \/ /\ call.result = EmptyString
           /\ \A j \in 1..(call.index - 1) :
                  IsAssistant(messages, j) => NoneCounts(messages[j].parts)
        \/ \E j \in 1..(call.index - 1) :
               /\ IsAssistant(messages, j)
               /\ \A later \in (j + 1)..(call.index - 1) :
                      IsAssistant(messages, later) => NoneCounts(messages[later].parts)
               /\ \E k \in 1..Len(messages[j].parts) :
                      LET part == messages[j].parts[k] IN
                      /\ Counts(part)
                      /\ NoneCounts(SubSeq(messages[j].parts, 1, k - 1))
                      /\ call.result =
                             IF part.thinking = EmptyString THEN part.text
                             ELSE part.thinking

Wit_C27_FallbackAfterBlank ==
    /\ call.fn = "findPreviousThinkingContent"
    /\ call.index = 3
    /\ IsAssistant(messages, 1)
    /\ Len(messages[1].parts) = 2
    /\ messages[1].parts[1].thinking = <<" ", "\t">>
    /\ messages[1].parts[2].thinking = EmptyString
    /\ IsAssistant(messages, 2)
    /\ Len(messages[2].parts) = 1
    /\ messages[2].parts[1].text = <<" ">>
    /\ call.result = messages[1].parts[2].text
    /\ call.result # EmptyString

(* C28: for a conversation whose most recent user message has model id m, *)
(* validateMessages(messages, m) leaves the conversation in the same state  *)
(* as the transform hook does, for enforcing and non-enforcing m alike.     *)
Thm_C28_ValidateMessagesAsHook ==
    (/\ call.fn = "validateMessages"
     /\ UserIndices(before) # {}
     /\ ActiveModel(before) = call.modelID)
        => messages = messagesTransform(before)

Wit_C28_SameRepairs ==
    /\ call.fn = "validateMessages"
    /\ UserIndices(before) # {}
    /\ call.modelID = s_claude_opus_4_thinking
    /\ ActiveModel(before) = call.modelID
    /\ messages # before
    /\ \E i \in 1..Len(before) : Unguarded(before, i) /\ i < Len(before)

\* the messages that got a part during the call
Repaired == {i \in 1..Len(before) : Len(messages[i].parts) > Len(before[i].parts)}

(* C29: validateMessages returns one result per message, in message order; *)
(* result i is valid = false, fixed = true exactly when a synthetic part    *)
(* was prepended to message i during the call and valid = true, fixed =     *)
(* false otherwise; getValidationStats on the results gives total = valid + *)
(* fixed and issues = fixed = the number of synthetic parts inserted.       *)
Thm_C29_ResultsMatchRepairs ==
    call.fn = "validateMessages" =>
        /\ Len(call.results) = Len(before)
        /\ \A i \in 1..Len(before) :
               IF i \in Repaired
               THEN /\ GainedSynthetic(i)
                    /\ call.results[i].valid = FALSE
                    /\ call.results[i].fixed = TRUE
               ELSE /\ messages[i] = before[i]
                    /\ call.results[i].valid = TRUE
                    /\ call.results[i].fixed = FALSE
        /\ call.stats.total = call.stats.valid + call.stats.fixed
        /\ call.stats.issues = call.stats.fixed
        /\ call.stats.fixed = Cardinality(Repaired)

Wit_C29_OneFixedOfThree ==
    /\ call.fn = "validateMessages"
    /\ Len(call.results) = 3
    /\ call.results[1].valid
    /\ call.results[2].fixed
    /\ call.results[3].valid
    /\ before[1].info.role = "user"
    /\ call.stats = [total |-> 3, valid |-> 2, fixed |-> 1, issues |-> 1]

\* the layers of the last load, lowest first; a missing file is an empty
\* layer
LayerOf(config) == IF config = NullConfig THEN <<>> ELSE config

Layers == <<DEFAULT_CONFIG, LayerOf(call.user), LayerOf(call.project), call.env>>

Defines(layers, n, k) == k \in DOMAIN layers[n] /\ layers[n][k].kind # "undefined"

\* the highest layer that defines key k
Highest(layers, k) ==
    CHOOSE n \in 1..4 :
        Defines(layers, n, k) /\ \A m \in (n + 1)..4 : ~Defines(layers, m, k)

\* the layers whose plain object under k is merged into the result: those
\* from which every defining layer up to the highest, h, holds a plain
\* object
Merged(layers, k, h) ==
    {n \in 1..h :
        /\ Defines(layers, n, k)
        /\ \A m \in n..h : Defines(layers, m, k) => layers[m][k].kind = "object"}

(* C30: loadConfig merges defaults < user file < project file <            *)
(* environment: for a key defined in several layers the highest layer      *)
(* wins, keys defined only in a lower layer survive, plain objects are     *)
(* merged key by key, arrays and scalars are replaced whole, undefined     *)
(* values never overwrite, and DEFAULT_CONFIG is unchanged after any       *)
(* number of loads.                                                        *)
Thm_C30_LayerPrecedence ==
    call.fn = "loadConfig" =>
        LET layers == Layers IN
        /\ call.DEFAULT_CONFIG = DEFAULT_CONFIG
        /\ DOMAIN call.config =
               {k \in ConfigKeys : \E n \in 1..4 : Defines(layers, n, k)}
        /\ \A k \in DOMAIN call.config :
               LET h      == Highest(layers, k)
                   top    == layers[h][k]
                   merged == Merged(layers, k, h)
               IN  IF top.kind # "object" THEN call.config[k] = top
                   ELSE /\ call.config[k].kind = "object"
                        /\ DOMAIN call.config[k].fields =
                               UNION {DOMAIN layers[n][k].fields : n \in merged}
                        /\ \A j \in DOMAIN call.config[k].fields :
                               \E n \in merged :
                                   /\ j \in DOMAIN layers[n][k].fields
                                   /\ call.config[k].fields[j] = layers[n][k].fields[j]
                                   /\ \A m \in merged :
                                          m > n => j \notin DOMAIN layers[m][k].fields

Wit_C30_ThreeLayersMerged ==
    /\ call.fn = "loadConfig"
    /\ call.loads = 2
    /\ call.user # NullConfig
    /\ call.project # NullConfig
    /\ "features" \in DOMAIN call.user
    /\ call.user["features"] = Object([j \in InnerKeys |-> Scalar("user")])
    /\ "features" \in DOMAIN call.project
    /\ call.project["features"] = Object([j \in {"astTools"} |-> Scalar("project")])
    /\ "features" \notin DOMAIN call.env
    /\ call.config["features"].fields["lspTools"] = Scalar("user")
    /\ call.config["features"].fields["astTools"] = Scalar("project")

====
